---- MODULE Spec2Model ----
(***************************************************************************)
(* Model of src/youtubeplaylistcopy.py: a Streamlit script that extracts a *)
(* playlist id from a URL, pages through the playlist listing, fetches a   *)
(* transcript per video, summarises it with a generative model and         *)
(* accumulates one row per video.                                          *)
(*                                                                         *)
(* Text values.  A URL is a sequence of one-character strings, because the *)
(* regular expression of get_youtube_playlist_id works on characters.      *)
(* Every other text (transcript, summary, message) is a sequence of        *)
(* pieces; concatenation is \o, str.startswith is the prefix relation and  *)
(* == is sequence equality.  The pieces are chosen so that no piece is a   *)
(* prefix or a concatenation of other pieces, hence two texts are equal    *)
(* (prefix-related) as Python strings iff they are as piece sequences.     *)
(* An optional value (Python None or a value) is a sequence of length 0    *)
(* or 1.                                                                   *)
(***************************************************************************)
EXTENDS Integers, Sequences, FiniteSets, TLC

\* ---------------------------------------------------------------- bounds
MaxRuns == 2        \* script reruns explored in the pipeline specification
MaxVideos == 2      \* videos in the playlist
MaxPieces == 4      \* pieces a candidate URL is assembled from
MaxCalls == 2       \* calls of summarize_text_with_gemini at function level

None == <<>>
Some(x) == <<x>>

\* ------------------------------------------------ get_youtube_playlist_id
\* [a-zA-Z0-9_-]
TokenChar ==
  { "a","b","c","d","e","f","g","h","i","j","k","l","m",
    "n","o","p","q","r","s","t","u","v","w","x","y","z",
    "A","B","C","D","E","F","G","H","I","J","K","L","M",
    "N","O","P","Q","R","S","T","U","V","W","X","Y","Z",
    "0","1","2","3","4","5","6","7","8","9","_","-" }

\* the literal of the non-capturing group (?:list=)
ListMarker == <<"l","i","s","t","=">>

\* does the literal s occur in url at position p
LiteralAt(url, s, p) ==
  /\ p >= 1
  /\ p + Len(s) - 1 <= Len(url)
  /\ SubSeq(url, p, p + Len(s) - 1) = s

\* greedy [a-zA-Z0-9_-]* from position q: the last position consumed
\* (q - 1 when nothing is consumed)
RECURSIVE GreedyEnd(_, _)
GreedyEnd(url, q) ==
  IF q <= Len(url) /\ url[q] \in TokenChar
    THEN GreedyEnd(url, q + 1)
    ELSE q - 1

\* the quantifier of the capture group: + needs at least one character
PlusQuantifier_star(n) == n >= 0
PlusQuantifier(n) == n >= 1

\* re.search: try the pattern at p, then at p + 1, ...; the first match wins.
\* The result is the optional capture group 1.
RECURSIVE ReSearch(_, _)
ReSearch(url, p) ==
  IF p > Len(url) + 1 THEN None
  ELSE IF /\ LiteralAt(url, ListMarker, p)
          /\ PlusQuantifier(GreedyEnd(url, p + 5) - (p + 5) + 1)
    THEN Some(SubSeq(url, p + 5, GreedyEnd(url, p + 5)))
    ELSE ReSearch(url, p + 1)

\* def get_youtube_playlist_id(url): the optional playlist id
get_youtube_playlist_id(url) ==
  LET match == ReSearch(url, 1)
  IN IF match # None THEN Some(match[1]) ELSE None

\* ---- candidate URLs: concatenations of at most MaxPieces URL pieces
UrlPiece ==
  { ListMarker, <<"a">>, <<"_">>, <<"-">>, <<"&">>, <<"P","L","7">>,
    <<"p","l","a","y">>, <<"l","i","s","t">>, <<"?">> }

RECURSIVE UrlsOf(_)
UrlsOf(n) ==
  IF n = 0 THEN { <<>> }
  ELSE LET shorter == UrlsOf(n - 1)
       IN shorter \cup { u \o p : u \in shorter, p \in UrlPiece }

Urls == UrlsOf(MaxPieces)

\* ------------------------------------------------------------ text values
\* str.startswith(prefix)
StartsWith(text, prefix) ==
  /\ Len(prefix) <= Len(text)
  /\ SubSeq(text, 1, Len(prefix)) = prefix

\* sep.join(parts)
RECURSIVE Join(_, _)
Join(sep, parts) ==
  IF parts = <<>> THEN <<>>
  ELSE IF Len(parts) = 1 THEN parts[1]
  ELSE parts[1] \o sep \o Join(sep, Tail(parts))

\* truthiness of a Python str or list: empty is falsy
Falsy(x) == x = <<>>

\* `not KEY` for the text of an API key field (st.text_input returns "")
Empty_isNone(key) == FALSE
Empty(key) == key = ""

\* ------------------------------------------------- get_video_transcript
\* What the captions service does for one request: it returns the ordered
\* caption fragments, or raises.
CaptionOutcome ==
  { [kind |-> "ok", list |-> <<>>, msg |-> <<>>],
    [kind |-> "ok", list |-> << <<"hello">> >>, msg |-> <<>>],
    [kind |-> "ok", list |-> << <<"hello">>, <<"world">> >>, msg |-> <<>>],
    [kind |-> "ok", list |-> << <<"Error fetching">>, <<"hello">> >>,
     msg |-> <<>>],
    [kind |-> "NoTranscriptFound", list |-> <<>>, msg |-> <<>>],
    [kind |-> "TranscriptsDisabled", list |-> <<>>, msg |-> <<>>],
    [kind |-> "Exception", list |-> <<>>, msg |-> <<"boom">>] }

NoTranscriptText == <<"No transcript found", ".">>
DisabledText_drift == <<"Captions disabled", " ", "for this video.">>
DisabledText == <<"Transcripts disabled", " ", "for this video.">>
ErrorFetchingText(e) == <<"Error fetching", " ", "transcript:", " ">> \o e

\* def get_video_transcript(video_id), given what the service does
get_video_transcript(outcome) ==
  IF outcome.kind = "ok" THEN Join(<<" ">>, outcome.list)
  ELSE IF outcome.kind = "NoTranscriptFound" THEN NoTranscriptText
  ELSE IF outcome.kind = "TranscriptsDisabled" THEN DisabledText
  ELSE ErrorFetchingText(outcome.msg)

\* ------------------------------------------- summarize_text_with_gemini
\* What the generative service does if it is asked: it answers with a text,
\* or raises.
GenOutcome ==
  { [ok |-> TRUE, text |-> <<"S1">>],
    [ok |-> TRUE, text |-> <<"S2">>],
    [ok |-> FALSE, text |-> <<"quota">>] }

GenerativeModel == Some("gemini-1.5-flash")
NotInitializedText == <<"Gemini model not initialized.">>

\* the literal list of the membership test
ErrorMessages ==
  { <<"No transcript found", ".">>,
    <<"Transcripts disabled", " ", "for this video.">>,
    <<"Error fetching", " ", "transcript:">> }

Prompt(text) ==
  <<"Please provide a concise summary of the following text:\n\n">> \o text

\* def summarize_text_with_gemini(text): the returned text, whether
\* generate_content was called, and the prompt it was called with
summarize_text_with_gemini(model, text, gen) ==
  IF model = None
    THEN [ret |-> NotInitializedText, called |-> FALSE, prompt |-> <<>>]
  ELSE IF text \in ErrorMessages
    THEN [ret |-> text, called |-> FALSE, prompt |-> <<>>]
  ELSE IF gen.ok
    THEN [ret |-> gen.text, called |-> TRUE, prompt |-> Prompt(text)]
  ELSE [ret |-> <<"Error summarizing:", " ">> \o gen.text, called |-> TRUE,
        prompt |-> Prompt(text)]

\* the prefixes of the startswith test of the per-video loop
FailurePrefixes ==
  { <<"No transcript found">>, <<"Transcripts disabled">>,
    <<"Error fetching">> }

\* the condition of the per-video loop that decides to summarise
ShouldSummarize_noEmptyCheck(transcript) ==
  ~\E prefix \in FailurePrefixes : StartsWith(transcript, prefix)
ShouldSummarize(transcript) ==
  /\ ~Falsy(transcript)
  /\ ~\E prefix \in FailurePrefixes : StartsWith(transcript, prefix)

\* ------------------------------------------------------- st.cache_data
\* A cache maps every possible argument to an optional stored result.  It
\* has no ttl and no max_entries, so an entry stays for the life of the
\* process.  get_youtube_playlist_id is cached too; it computes its result
\* from its argument alone, so its cache is not a separate variable.
CacheGet(cache, key) == cache[key]
CachePut_skipEmpty(cache, key, value) ==
  IF value = <<>> THEN cache ELSE [cache EXCEPT ![key] = Some(value)]
CachePut(cache, key, value) == [cache EXCEPT ![key] = Some(value)]

\* ------------------------------------------------- the video platform
Videos == { "v1", "v2" }
TitleOf(v) == <<"title of ", v>>

\* the playlists the platform may hold: at most MaxVideos entries
RECURSIVE SeqsUpTo(_, _)
SeqsUpTo(S, n) ==
  IF n = 0 THEN { <<>> }
  ELSE LET shorter == SeqsUpTo(S, n - 1)
       IN shorter \cup { Append(q, x) : q \in shorter, x \in S }

Playlists == SeqsUpTo(Videos, MaxVideos)

Min(a, b) == IF a <= b THEN a ELSE b

\* playlistItems().list(playlistId, maxResults, pageToken).execute() on a
\* playlist `entries` that the platform serves `served` items at a time; a
\* continuation token is the offset of the next item
PlaylistItemsList(entries, served, maxResults, pageToken) ==
  LET offset == IF pageToken = None THEN 0 ELSE pageToken[1]
      last == Min(offset + Min(maxResults, served), Len(entries))
  IN [items |-> [k \in 1..(last - offset) |->
                   [videoId |-> entries[offset + k],
                    title |-> TitleOf(entries[offset + k])]],
      nextPageToken |-> IF last < Len(entries) THEN Some(last) ELSE None]

\* maxResults=50
MaxResults == 50

\* the record appended for one item of a page
VideoRecord(item) ==
  [video_id |-> item.videoId,
   title |-> item.title,
   url |-> <<"youtu.be/", item.videoId>>]

\* the for loop over response["items"]
RECURSIVE AppendItems(_, _)
AppendItems(video_urls, items) ==
  IF items = <<>> THEN video_urls
  ELSE AppendItems(Append(video_urls, VideoRecord(Head(items))), Tail(items))

\* return value of the except branch of get_playlist_video_urls
ListingError_keep(video_urls) == video_urls
ListingError(video_urls) == <<>>

\* ----------------------------------------------------- the user's inputs
KeyInputs == { "", "key" }
UrlInputs ==
  { <<>>,
    <<"w","a","t","c","h","?","v","=","x">>,
    <<"p","l","a","y","l","i","s","t","?","l","i","s","t","=","a">>,
    <<"l","i","s","t","=","b">> }

\* the playlist that exists on the platform; any other id is an HTTP error
ExistingPlaylistId == <<"a">>
PlaylistIds == { <<"a">>, <<"b">> }

TranscriptTexts == { get_video_transcript(o) : o \in CaptionOutcome }

\* the texts summarize_text_with_gemini is applied to at function level:
\* every transcript text, the error text of every message, and the third
\* literal of the membership test
Messages == { <<>>, <<"boom">> }
SummarizeInputs ==
  TranscriptTexts \cup { ErrorFetchingText(e) : e \in Messages }
    \cup { <<"Error fetching", " ", "transcript:">> }

\* pd.concat([results_df, new_row], ignore_index=True)
ConcatRow_front(df, row) == <<row>> \o df
ConcatRow(df, row) == Append(df, row)

\* the value passed to progress_bar.progress in iteration i (0-based) of n:
\* the fraction num/den
ProgressValue_early(i, n) == [num |-> i, den |-> n]
ProgressValue(i, n) == [num |-> i + 1, den |-> n]

VARIABLES
  \* the environment: the playlist held by the platform and its page size
  playlist, served,
  \* the script
  runs,               \* script runs started
  pc,                 \* position of the script
  GEMINI_API_KEY, YOUTUBE_API_KEY, gemini_model,
  playlist_url_input, playlist_id, video_details,
  video_urls, next_page_token,          \* locals of get_playlist_video_urls
  i, transcript, summary, results_df,   \* locals of the per-video loop
  progress_bar,       \* the values reported to the progress bar, in order
  ui,                 \* the last message shown
  \* st.cache_data of the three fetching functions (process-wide)
  cache_list, cache_transcript, cache_summary,
  \* observation of the run
  net,                \* kinds of network calls made in this run
  requests,           \* page requests of the current listing call
  pages,              \* responses it received
  listed,             \* per playlist id, the results the lister has returned
  list_calls,         \* per playlist id, how many times it has returned
  caption,            \* what the captions service did for the current video
  gen,                \* what the generative service does for it if asked
  gen_calls,          \* generate_content calls made for the current video
  trace,              \* per row: caption, gen, gen_calls of its video
  \* the functions applied on their own
  url_arg,        \* argument of the get_youtube_playlist_id call
  url_ret,        \* its return value (optional id)
  url_done,       \* has the call returned
  sum_model,      \* the global gemini_model seen by summarize_text_with_gemini
  sum_cache,      \* its st.cache_data
  sum_arg, sum_gen, sum_ret, sum_called,   \* the last call
  sum_count       \* calls made

envVars == <<playlist, served>>
scriptVars ==
  <<runs, pc, GEMINI_API_KEY, YOUTUBE_API_KEY, gemini_model,
    playlist_url_input, playlist_id, video_details, video_urls,
    next_page_token, i, transcript, summary, results_df, progress_bar, ui>>
cacheVars == <<cache_list, cache_transcript, cache_summary>>
obsVars ==
  <<net, requests, pages, listed, list_calls, caption, gen, gen_calls, trace>>
pipelineVars == <<envVars, scriptVars, cacheVars, obsVars>>
extractVars == <<url_arg, url_ret, url_done>>
summarizeVars ==
  <<sum_model, sum_cache, sum_arg, sum_gen, sum_ret, sum_called, sum_count>>

vars == <<pipelineVars, extractVars, summarizeVars>>

NoCaption == [kind |-> "none", list |-> <<>>, msg |-> <<>>]
NoGen == [ok |-> FALSE, text |-> <<>>]

\* the state before the first script run, for a given platform
PipelineStart ==
  /\ runs = 0
  /\ pc = "idle"
  /\ GEMINI_API_KEY = ""
  /\ YOUTUBE_API_KEY = ""
  /\ gemini_model = None
  /\ playlist_url_input = <<>>
  /\ playlist_id = None
  /\ video_details = <<>>
  /\ video_urls = <<>>
  /\ next_page_token = None
  /\ i = 0
  /\ transcript = <<>>
  /\ summary = <<>>
  /\ results_df = <<>>
  /\ progress_bar = <<>>
  /\ ui = "none"
  /\ cache_list = [id \in PlaylistIds |-> None]
  /\ cache_transcript = [v \in Videos |-> None]
  /\ cache_summary = [t \in TranscriptTexts |-> None]
  /\ net = {}
  /\ requests = <<>>
  /\ pages = <<>>
  /\ listed = [id \in PlaylistIds |-> {}]
  /\ list_calls = [id \in PlaylistIds |-> 0]
  /\ caption = NoCaption
  /\ gen = NoGen
  /\ gen_calls = 0
  /\ trace = <<>>

ExtractIdle ==
  /\ url_arg = <<>>
  /\ url_ret = None
  /\ url_done = FALSE

SummarizeIdle ==
  /\ sum_model = GenerativeModel
  /\ sum_cache = [t \in SummarizeInputs |-> None]
  /\ sum_arg = <<>>
  /\ sum_gen = NoGen
  /\ sum_ret = <<>>
  /\ sum_called = FALSE
  /\ sum_count = 0

\* ------------------------------------------------------- the script run
\* A rerun starts when the previous one has ended.  Lines 26-33 and 55-71,
\* then the button: the sidebar gate stops the script when a key is empty.
StartRun(g, y, u, clicked) ==
  /\ pc \in { "idle", "stopped", "end", "done" }
  /\ runs < MaxRuns
  /\ runs' = runs + 1
  /\ GEMINI_API_KEY' = g
  /\ YOUTUBE_API_KEY' = y
  /\ playlist_url_input' = u
  /\ playlist_id' = None
  /\ video_details' = <<>>
  /\ video_urls' = <<>>
  /\ next_page_token' = None
  /\ i' = 0
  /\ transcript' = <<>>
  /\ summary' = <<>>
  /\ results_df' = <<>>
  /\ progress_bar' = <<>>
  /\ net' = {}
  /\ requests' = <<>>
  /\ pages' = <<>>
  /\ caption' = NoCaption
  /\ gen' = NoGen
  /\ gen_calls' = 0
  /\ trace' = <<>>
  /\ IF Empty(g) \/ Empty(y)
       THEN /\ ui' = "Please enter both API keys to use the application."
            /\ gemini_model' = None
            /\ pc' = "stopped"
       ELSE /\ gemini_model' = IF ~Empty(g) THEN GenerativeModel ELSE None
            /\ ui' = IF ~Empty(g) THEN "none" ELSE "Gemini API key not found."
            /\ pc' = IF clicked THEN "handler" ELSE "end"
  /\ UNCHANGED <<envVars, cacheVars, listed, list_calls, extractVars,
                 summarizeVars>>

\* Lines 173-187: the checks of the button handler, up to the lister call.
Handler ==
  /\ pc = "handler"
  /\ IF Empty(GEMINI_API_KEY) \/ Empty(YOUTUBE_API_KEY)
       THEN /\ ui' = "Please enter both API keys in the sidebar to proceed."
            /\ pc' = "end"
            /\ UNCHANGED playlist_id
     ELSE IF Falsy(playlist_url_input)
       THEN /\ ui' = "Please enter a YouTube playlist URL."
            /\ pc' = "end"
            /\ UNCHANGED playlist_id
     ELSE /\ playlist_id' = get_youtube_playlist_id(playlist_url_input)
          /\ IF playlist_id' = None \/ Falsy(playlist_id'[1])
               THEN /\ ui' = "Invalid YouTube playlist URL."
                    /\ pc' = "end"
               ELSE /\ ui' = "Fetching video details and transcripts."
                    /\ pc' = "list_call"
  /\ UNCHANGED <<envVars, cacheVars, obsVars, extractVars, summarizeVars,
                 runs, GEMINI_API_KEY, YOUTUBE_API_KEY, gemini_model,
                 playlist_url_input, video_details, video_urls,
                 next_page_token, i, transcript, summary, results_df,
                 progress_bar>>

\* what get_playlist_video_urls does when it returns `result`: the cache
\* stores it and the caller assigns it to video_details
ListerReturns(result) ==
  /\ cache_list' = CachePut(cache_list, playlist_id[1], result)
  /\ video_details' = result
  /\ listed' = [listed EXCEPT ![playlist_id[1]] = @ \cup { result }]
  /\ list_calls' = [list_calls EXCEPT ![playlist_id[1]] = @ + 1]
  /\ pc' = "listed"

\* Line 190: the cached call.  A hit returns the stored result; a miss
\* enters the function body (lines 89-98).
ListCall ==
  /\ pc = "list_call"
  /\ IF CacheGet(cache_list, playlist_id[1]) # None
       THEN /\ video_details' = CacheGet(cache_list, playlist_id[1])[1]
            /\ listed' = [listed EXCEPT ![playlist_id[1]] =
                            @ \cup { video_details' }]
            /\ list_calls' = [list_calls EXCEPT ![playlist_id[1]] = @ + 1]
            /\ pc' = "listed"
            /\ UNCHANGED <<cache_list, video_urls, next_page_token, ui>>
     ELSE IF Empty(YOUTUBE_API_KEY)
       THEN /\ ListerReturns(<<>>)
            /\ ui' = "YouTube Data API key not found."
            /\ UNCHANGED <<video_urls, next_page_token>>
     ELSE /\ video_urls' = <<>>
          /\ next_page_token' = None
          /\ pc' = "page"
          /\ UNCHANGED <<cache_list, video_details, listed, list_calls, ui>>
  /\ UNCHANGED <<envVars, cache_transcript, cache_summary, net, requests,
                 pages, caption, gen, gen_calls, trace, extractVars,
                 summarizeVars, runs, GEMINI_API_KEY, YOUTUBE_API_KEY,
                 gemini_model, playlist_url_input, playlist_id, i,
                 transcript, summary, results_df, progress_bar>>

\* Lines 100-124: one iteration of the paging loop whose request succeeds.
ListPage ==
  /\ pc = "page"
  /\ playlist_id[1] = ExistingPlaylistId
  /\ LET request == [playlistId |-> playlist_id[1],
                     maxResults |-> MaxResults,
                     pageToken |-> next_page_token]
         response == PlaylistItemsList(playlist, served, request.maxResults,
                                       request.pageToken)
     IN /\ requests' = Append(requests, request)
        /\ pages' = Append(pages, response)
        /\ video_urls' = AppendItems(video_urls, response.items)
        /\ next_page_token' = response.nextPageToken
        /\ IF response.nextPageToken = None
             THEN ListerReturns(video_urls')
             ELSE /\ pc' = "page"
                  /\ UNCHANGED <<cache_list, video_details, listed, list_calls>>
  /\ net' = net \cup { "playlistItems" }
  /\ UNCHANGED <<envVars, cache_transcript, cache_summary, caption, gen,
                 gen_calls, trace, extractVars, summarizeVars, runs,
                 GEMINI_API_KEY, YOUTUBE_API_KEY, gemini_model,
                 playlist_url_input, playlist_id, i, transcript, summary,
                 results_df, progress_bar, ui>>

\* Lines 126-128: the request raises (transport, quota, unknown playlist).
ListPageError ==
  /\ pc = "page"
  /\ requests' = Append(requests, [playlistId |-> playlist_id[1],
                                   maxResults |-> MaxResults,
                                   pageToken |-> next_page_token])
  /\ ListerReturns(ListingError(video_urls))
  /\ ui' = "Error fetching playlist videos"
  /\ net' = net \cup { "playlistItems" }
  /\ UNCHANGED <<envVars, cache_transcript, cache_summary, pages, caption,
                 gen, gen_calls, trace, extractVars, summarizeVars, runs,
                 GEMINI_API_KEY, YOUTUBE_API_KEY, gemini_model,
                 playlist_url_input, playlist_id, video_urls,
                 next_page_token, i, transcript, summary, results_df,
                 progress_bar>>

\* Lines 192-201: no videos is a warning; otherwise the table and the
\* progress bar are created.
AfterListing ==
  /\ pc = "listed"
  /\ IF Falsy(video_details)
       THEN /\ ui' = "No videos found in playlist or an error occurred."
            /\ pc' = "end"
            /\ UNCHANGED <<results_df, progress_bar, i>>
       ELSE /\ results_df' = <<>>
            /\ progress_bar' = << [num |-> 0, den |-> 1] >>
            /\ i' = 0
            /\ pc' = "fetch"
            /\ UNCHANGED ui
  /\ UNCHANGED <<envVars, cacheVars, obsVars, extractVars, summarizeVars,
                 runs, GEMINI_API_KEY, YOUTUBE_API_KEY, gemini_model,
                 playlist_url_input, playlist_id, video_details, video_urls,
                 next_page_token, transcript, summary>>

\* Lines 203-213: the cached get_video_transcript call of iteration i.  On a
\* miss the captions service answers with outcome o.  g is what the
\* generative service will do for this video if it is asked.
Fetch(o, g) ==
  /\ pc = "fetch"
  /\ LET video_id == video_details[i + 1].video_id
     IN IF CacheGet(cache_transcript, video_id) # None
          THEN /\ transcript' = CacheGet(cache_transcript, video_id)[1]
               /\ caption' = [kind |-> "cached", list |-> <<>>, msg |-> <<>>]
               /\ UNCHANGED <<cache_transcript, net>>
          ELSE /\ transcript' = get_video_transcript(o)
               /\ cache_transcript' =
                    CachePut(cache_transcript, video_id, transcript')
               /\ caption' = o
               /\ net' = net \cup { "get_transcript" }
  /\ gen' = g
  /\ gen_calls' = 0
  /\ ui' = "Processing video"
  /\ pc' = "summarize"
  /\ UNCHANGED <<envVars, cache_list, cache_summary, requests, pages, listed,
                 list_calls, trace, extractVars, summarizeVars, runs, GEMINI_API_KEY,
                 YOUTUBE_API_KEY, gemini_model, playlist_url_input,
                 playlist_id, video_details, video_urls, next_page_token, i,
                 summary, results_df, progress_bar>>

\* Lines 216-232: summarise through the cached summarize_text_with_gemini,
\* or pass the transcript through.
Summarize ==
  /\ pc = "summarize"
  /\ IF ShouldSummarize(transcript)
       THEN IF CacheGet(cache_summary, transcript) # None
              THEN /\ summary' = CacheGet(cache_summary, transcript)[1]
                   /\ UNCHANGED <<cache_summary, gen_calls, net>>
              ELSE LET r == summarize_text_with_gemini(gemini_model,
                                                       transcript, gen)
                   IN /\ summary' = r.ret
                      /\ cache_summary' =
                           CachePut(cache_summary, transcript, r.ret)
                      /\ gen_calls' = IF r.called THEN 1 ELSE 0
                      /\ net' = IF r.called
                                  THEN net \cup { "generate_content" }
                                  ELSE net
       ELSE /\ summary' = transcript
            /\ UNCHANGED <<cache_summary, gen_calls, net>>
  /\ pc' = "append"
  /\ UNCHANGED <<envVars, cache_list, cache_transcript, requests, pages,
                 listed, list_calls, caption, gen, trace, extractVars, summarizeVars,
                 runs, GEMINI_API_KEY, YOUTUBE_API_KEY, gemini_model,
                 playlist_url_input, playlist_id, video_details, video_urls,
                 next_page_token, i, transcript, results_df, progress_bar,
                 ui>>

\* Lines 234-243: the row of iteration i is appended.
AppendRow ==
  /\ pc = "append"
  /\ LET detail == video_details[i + 1]
         new_row == [Title |-> detail.title, URL |-> detail.url,
                     Summary |-> summary]
     IN results_df' = ConcatRow(results_df, new_row)
  /\ trace' = Append(trace, [caption |-> caption.kind, gen |-> gen,
                             gen_calls |-> gen_calls,
                             transcript |-> transcript])
  /\ pc' = "progress"
  /\ UNCHANGED <<envVars, cacheVars, net, requests, pages, listed, list_calls,
                 caption,
                 gen, gen_calls, extractVars, summarizeVars, runs,
                 GEMINI_API_KEY, YOUTUBE_API_KEY, gemini_model,
                 playlist_url_input, playlist_id, video_details, video_urls,
                 next_page_token, i, transcript, summary, progress_bar, ui>>

\* Line 245, then the next iteration or lines 247-256.
Progress ==
  /\ pc = "progress"
  /\ progress_bar' =
       Append(progress_bar, ProgressValue(i, Len(video_details)))
  /\ i' = i + 1
  /\ IF i + 1 < Len(video_details)
       THEN /\ pc' = "fetch"
            /\ UNCHANGED ui
       ELSE /\ pc' = "done"
            /\ ui' = "Summarization complete!"
  /\ UNCHANGED <<envVars, cacheVars, obsVars, extractVars, summarizeVars,
                 runs, GEMINI_API_KEY, YOUTUBE_API_KEY, gemini_model,
                 playlist_url_input, playlist_id, video_details, video_urls,
                 next_page_token, transcript, summary, results_df>>

Init ==
  /\ playlist \in Playlists
  /\ served \in 1..MaxVideos
  /\ PipelineStart
  /\ ExtractIdle
  /\ SummarizeIdle

Next ==
  \/ \E g \in KeyInputs, y \in KeyInputs, u \in UrlInputs, c \in BOOLEAN :
       StartRun(g, y, u, c)
  \/ Handler
  \/ ListCall
  \/ ListPage
  \/ ListPageError
  \/ AfterListing
  \/ \E o \in CaptionOutcome, g \in GenOutcome : Fetch(o, g)
  \/ Summarize
  \/ AppendRow
  \/ Progress

Spec == Init /\ [][Next]_vars

\* ------------------------------ get_youtube_playlist_id as a function
InitExtract ==
  /\ playlist = <<>>
  /\ served = 1
  /\ PipelineStart
  /\ SummarizeIdle
  /\ url_arg \in Urls
  /\ url_ret = None
  /\ url_done = FALSE

CallExtract ==
  /\ ~url_done
  /\ url_ret' = get_youtube_playlist_id(url_arg)
  /\ url_done' = TRUE
  /\ UNCHANGED <<url_arg, pipelineVars, summarizeVars>>

SpecExtract == InitExtract /\ [][CallExtract]_vars

\* --------------------------- summarize_text_with_gemini as a function
InitSummarize ==
  /\ playlist = <<>>
  /\ served = 1
  /\ PipelineStart
  /\ ExtractIdle
  /\ SummarizeIdle

\* one call through st.cache_data with the model initialised
CallSummarize(text, g) ==
  /\ sum_count < MaxCalls
  /\ sum_count' = sum_count + 1
  /\ sum_arg' = text
  /\ sum_gen' = g
  /\ IF CacheGet(sum_cache, text) # None
       THEN /\ sum_ret' = CacheGet(sum_cache, text)[1]
            /\ sum_called' = FALSE
            /\ UNCHANGED sum_cache
       ELSE LET r == summarize_text_with_gemini(sum_model, text, g)
            IN /\ sum_ret' = r.ret
               /\ sum_called' = r.called
               /\ sum_cache' = CachePut(sum_cache, text, r.ret)
  /\ UNCHANGED <<sum_model, pipelineVars, extractVars>>

NextSummarize ==
  \E text \in SummarizeInputs, g \in GenOutcome : CallSummarize(text, g)

SpecSummarize == InitSummarize /\ [][NextSummarize]_vars

\* ================================================================ claims
InLoop == pc \in { "fetch", "summarize", "append", "progress" }

\* C1: in a run over a non-empty listing, at every point of the per-video
\* loop the table is a prefix of the lister's sequence (row k carries the
\* title and url of video k), and a completed run has exactly one row per
\* listed video, whatever the per-video outcomes were.
C1_TableIsPrefixOfListing ==
  (InLoop \/ pc = "done") =>
    /\ Len(results_df) <= Len(video_details)
    /\ \A k \in 1..Len(results_df) :
         /\ results_df[k].Title = video_details[k].title
         /\ results_df[k].URL = video_details[k].url
    /\ pc \in { "fetch", "summarize", "append" } => Len(results_df) = i
    /\ pc = "progress" => Len(results_df) = i + 1
    /\ pc = "done" => Len(results_df) = Len(video_details)

\* a completed run over two different videos where the first transcript
\* fetch raised and the second video's model call raised
C1_Witness ==
  /\ pc = "done"
  /\ Len(results_df) >= 2
  /\ video_details[1] # video_details[2]
  /\ trace[1].caption = "Exception"
  /\ trace[2].gen_calls = 1
  /\ ~trace[2].gen.ok

\* C2: a video whose transcript fetch raises TranscriptsDisabled gets no
\* generate_content call, and its row's Summary is exactly
\* "Transcripts disabled for this video.".
C2_DisabledNeverCallsModel ==
  /\ caption.kind = "TranscriptsDisabled" => gen_calls = 0
  /\ \A k \in 1..Len(trace) :
       trace[k].caption = "TranscriptsDisabled" =>
         /\ trace[k].gen_calls = 0
         /\ results_df[k].Summary =
              <<"Transcripts disabled", " ", "for this video.">>

C2_Witness ==
  /\ pc = "done"
  /\ \E k \in 1..Len(trace) : trace[k].caption = "TranscriptsDisabled"

C6_ProgressIsKOverN ==
  (InLoop \/ pc = "done") =>
    LET n == Len(video_details)
        reported == Len(progress_bar) - 1
    IN /\ n >= 1
       /\ Len(progress_bar) >= 1
       /\ progress_bar[1].num = 0
       /\ \A k \in 1..reported :
            /\ progress_bar[k + 1].den > 0
            /\ progress_bar[k + 1].num * n = k * progress_bar[k + 1].den
            /\ progress_bar[k].num * progress_bar[k + 1].den
                 <= progress_bar[k + 1].num * progress_bar[k].den
       /\ reported <= Len(results_df)
       /\ pc = "done" =>
            /\ reported = n
            /\ progress_bar[n + 1].num = progress_bar[n + 1].den

C6_Witness ==
  /\ pc = "done"
  /\ Len(video_details) >= 2
  /\ Len(progress_bar) = Len(video_details) + 1

\* C7: for an unchanged playlist, all calls of get_playlist_video_urls with
\* the same playlist id return the same sequence, whichever page requests
\* fail.
C7_ListingIdempotent ==
  \A id \in PlaylistIds : Cardinality(listed[id]) <= 1

\* the first call failed on a non-empty playlist and a second call returned
C7_Witness ==
  /\ playlist # <<>>
  /\ list_calls[ExistingPlaylistId] >= 2
  /\ listed[ExistingPlaylistId] = { <<>> }

\* C8: while the Gemini key or the YouTube key of the run is empty, no
\* network call has been made in the run, the table has no row and the
\* script is stopped before the pipeline.
C8_KeysRequired ==
  (GEMINI_API_KEY = "" \/ YOUTUBE_API_KEY = "") =>
    /\ net = {}
    /\ results_df = <<>>
    /\ pc \in { "idle", "stopped" }

\* a run with one key missing, started after a run that listed a playlist
C8_Witness ==
  /\ pc = "stopped"
  /\ GEMINI_API_KEY # ""
  /\ YOUTUBE_API_KEY = ""
  /\ cache_list[ExistingPlaylistId] # None

\* the records of the items of the pages, in page order
RECURSIVE RecordsOfPages(_)
RecordsOfPages(ps) ==
  IF ps = <<>> THEN <<>>
  ELSE RecordsOfPages(SubSeq(ps, 1, Len(ps) - 1)) \o
       [k \in 1..Len(ps[Len(ps)].items) |->
          [video_id |-> ps[Len(ps)].items[k].videoId,
           title |-> ps[Len(ps)].items[k].title,
           url |-> <<"youtu.be/", ps[Len(ps)].items[k].videoId>>]]

\* C9: the lister starts without a token, requests 50 items per page with
\* the previous page's token, goes on exactly while pages carry a token,
\* returns the records of all pages in order when every request succeeds,
\* and returns the empty sequence when a request fails.
C9_Pagination ==
  (requests # <<>>) =>
    /\ requests[1].pageToken = None
    /\ \A k \in 1..Len(requests) : requests[k].maxResults = 50
    /\ \A k \in 2..Len(requests) :
         /\ k - 1 <= Len(pages)
         /\ pages[k - 1].nextPageToken # None
         /\ requests[k].pageToken = pages[k - 1].nextPageToken
    /\ (pc # "page" /\ Len(pages) = Len(requests)) =>
         /\ pages[Len(pages)].nextPageToken = None
         /\ video_details = RecordsOfPages(pages)
         /\ [k \in 1..Len(video_details) |-> video_details[k].video_id]
              = playlist
    /\ (pc # "page" /\ Len(pages) < Len(requests)) =>
         video_details = <<>>

\* the request for the second page failed after a first page with items
C9_Witness ==
  /\ pc = "listed"
  /\ Len(requests) = 2
  /\ Len(pages) = 1
  /\ pages[1].items # <<>>
  /\ video_details = <<>>

\* positions where "list=" is directly followed by a token character
TokenMarkers(url) ==
  { p \in 1..Len(url) :
      /\ p + 5 <= Len(url)
      /\ \A k \in 1..5 : url[p + k - 1] = ListMarker[k]
      /\ url[p + 5] \in TokenChar }

\* positions where "list=" occurs
Markers(url) ==
  { p \in 1..Len(url) :
      /\ p + 4 <= Len(url)
      /\ \A k \in 1..5 : url[p + k - 1] = ListMarker[k] }

\* is t the maximal run of token characters of url that starts at q
IsMaximalRunAt(url, q, t) ==
  /\ q + Len(t) - 1 <= Len(url)
  /\ \A k \in 1..Len(t) : url[q + k - 1] = t[k] /\ t[k] \in TokenChar
  /\ (q + Len(t) <= Len(url)) => url[q + Len(t)] \notin TokenChar

\* C5 (as claimed): the result is the maximal run of token characters after
\* the first "list=" of the URL (no id, or the empty one, when that run is
\* empty), and None when the URL has no "list=".
C5_Original ==
  url_done =>
    IF Markers(url_arg) = {}
      THEN url_ret = None
      ELSE \E p \in Markers(url_arg) :
             /\ \A q \in Markers(url_arg) : p <= q
             /\ \/ url_ret # None /\ IsMaximalRunAt(url_arg, p + 5, url_ret[1])
                \/ url_ret = None /\ IsMaximalRunAt(url_arg, p + 5, <<>>)

\* C5 (amended): the result is the maximal run of token characters after
\* the first "list=" that is directly followed by a token character, and
\* None when the URL has no such occurrence.
C5_FirstMarkerWithToken ==
  url_done =>
    IF TokenMarkers(url_arg) = {}
      THEN url_ret = None
      ELSE \E p \in TokenMarkers(url_arg) :
             /\ \A q \in TokenMarkers(url_arg) : p <= q
             /\ url_ret # None
             /\ url_ret[1] # <<>>
             /\ IsMaximalRunAt(url_arg, p + 5, url_ret[1])

\* "list=" without a token, then "list=" with one
C5_Witness ==
  /\ url_done
  /\ Cardinality(Markers(url_arg)) >= 2
  /\ \E p \in Markers(url_arg) :
       p \notin TokenMarkers(url_arg) /\
       \E q \in TokenMarkers(url_arg) : p < q
  /\ url_ret # None

\* the texts returned by the failure branches of get_video_transcript
FailureBranchTexts ==
  { <<"No transcript found", ".">>,
    <<"Transcripts disabled", " ", "for this video.">> }
    \cup { <<"Error fetching", " ", "transcript:", " ">> \o e : e \in Messages }

\* C10 (as claimed): with the model initialised, a call on a text of a
\* failure branch of get_video_transcript returns the text unchanged and
\* makes no model call.
C10_Original ==
  (sum_count > 0 /\ sum_model # None /\ sum_arg \in FailureBranchTexts) =>
    /\ sum_ret = sum_arg
    /\ ~sum_called

====
